---- MODULE Spec2Model ----
(***************************************************************************)
(* pyFishTank: the relational store (services/data_manager.py), the three  *)
(* managers (services/managers.py) and the callers that drive them         *)
(* (api/app.py, ui/console.py).                                            *)
(*                                                                         *)
(* Representation.  A uuid is a positive integer; str(uuid) / UUID(text)   *)
(* is the canonical, injective text form, so a TEXT id column holds the    *)
(* same integer.  A date or datetime is its ordinal; isoformat() of naive  *)
(* values is an order-preserving injection, so a TEXT date column holds    *)
(* the ordinal.  Python None / SQL NULL is the empty tuple, a present      *)
(* optional value v is <<v>>.                                              *)
(***************************************************************************)
EXTENDS Integers, Sequences, FiniteSets, TLC

VARIABLES db, disk, uuids, clock, casc, last

vars == <<db, disk, uuids, clock, casc, last>>

(***************************************************************************)
(* Bounds of the model.                                                    *)
(***************************************************************************)
MaxTanks == 2
MaxFish == 2
MaxLogs == 2
MaxParamRows == 2
MaxEntries == 3
MaxDate == 3

TankIds == 1..MaxTanks
FishIds == 1..MaxFish
LogIds == 1..MaxLogs
Dates == 1..MaxDate

None == <<>>
Some(v) == <<v>>

(***************************************************************************)
(* models/*.py: the closed value sets.                                     *)
(***************************************************************************)
VALID_TANK_TYPES == {"freshwater", "saltwater", "brackish"}
VALID_HEALTH_STATUSES == {"healthy", "sick", "recovering", "deceased"}
VALID_ACTIVITY_TYPES ==
    {"water_change", "filter_clean", "feeding", "water_test",
     "equipment_check", "medication"}

(***************************************************************************)
(* The values callers pass in.                                             *)
(***************************************************************************)
TankNames == {"Reef", "Pond"}
FishNames == {"Nemo", "Dory"}
TankTypeInputs == {"freshwater", "reef"}
HealthInputs == {"healthy", "bogus"}
StatusInputs == {"healthy", "sick", "bogus"}
\* A text is a sequence of tokens; a blank is the token " " of its own.
Descriptions == {<<"note">>}

WaterParameters(date_tested, temperature) ==
    [date_tested |-> date_tested, temperature |-> temperature, ph |-> None,
     ammonia |-> None, nitrite |-> None, nitrate |-> None, salinity |-> None]

Tank(id, name, size_gallons, tank_type) ==
    [id |-> id, name |-> name, size_gallons |-> size_gallons,
     tank_type |-> tank_type, location |-> "", equipment |-> <<>>,
     current_parameters |-> None]

Fish(id, name, tank_id, date_added, health_status) ==
    [id |-> id, name |-> name, species |-> "clownfish", tank_id |-> tank_id,
     date_added |-> date_added, birth_date |-> None,
     health_status |-> health_status, size |-> None, color |-> None,
     feeding_preferences |-> None, notes |-> None]

MaintenanceLog(id, tank_id, date, activity_type, description, water_params) ==
    [id |-> id, tank_id |-> tank_id, date |-> date,
     activity_type |-> activity_type, description |-> description,
     water_params |-> water_params]

(***************************************************************************)
(* Entity construction: the dataclass __post_init__ checks.  An object     *)
(* that fails them is never built (ValueError).                            *)
(***************************************************************************)
\* Mutant: the size check is missing.
Tank_post_init_type_only(tank) == tank.tank_type \in VALID_TANK_TYPES

Tank_post_init(tank) ==
    tank.tank_type \in VALID_TANK_TYPES /\ tank.size_gallons > 0

\* Mutant: the status is not checked at construction.
Fish_post_init_unchecked(fish) == TRUE

Fish_post_init(fish) == fish.health_status \in VALID_HEALTH_STATUSES

MaintenanceLog_post_init(log) == log.activity_type \in VALID_ACTIVITY_TYPES

(***************************************************************************)
(* What a call hands back: a value, or the exception it raised.            *)
(***************************************************************************)
RetNone == [kind |-> "none", b |-> FALSE, n |-> 0, v |-> None]
RetBool(b) == [kind |-> "bool", b |-> b, n |-> 0, v |-> None]
RetInt(n) == [kind |-> "int", b |-> FALSE, n |-> n, v |-> None]
RetObject(v) == [kind |-> "object", b |-> FALSE, n |-> 0, v |-> Some(v)]
RetRaise(e) == [kind |-> e, b |-> FALSE, n |-> 0, v |-> None]

(***************************************************************************)
(* DataManager: the four tables of _init_database, the AUTOINCREMENT       *)
(* sequence of water_parameters, and the connection's open transaction.    *)
(* db is what the shared connection sees, disk what has been committed.    *)
(***************************************************************************)
EmptyDatabase ==
    [tanks |-> {}, water_parameters |-> {}, fish |-> {},
     maintenance_logs |-> {}, wp_seq |-> 0]

\* DataManager.commit: the connection's open transaction becomes durable.
\* A connection c is [db, disk]; a call returns the connection and a value.
commit(c) == [db |-> c.db, disk |-> c.db]

Returned(c, ret) == [db |-> c.db, disk |-> c.disk, ret |-> ret]

\* cursor.execute of a statement that changes the connection's view to d.
execute(c, d) == [db |-> d, disk |-> c.disk]

\* str.join of ",".join(tank.equipment): the names with "," between them,
\* as a sequence of characters.
RECURSIVE join(_)
join(equipment) ==
    IF equipment = <<>> THEN <<>>
    ELSE IF Len(equipment) = 1 THEN Head(equipment)
    ELSE Head(equipment) \o <<",">> \o join(Tail(equipment))

Ids(table) == {r.id : r \in table}

(***************************************************************************)
(* TankManager.                                                            *)
(***************************************************************************)
TankRow(tank) ==
    [id |-> tank.id, name |-> tank.name, size_gallons |-> tank.size_gallons,
     tank_type |-> tank.tank_type, location |-> tank.location,
     equipment |-> join(tank.equipment)]

\* INSERT INTO tanks; the primary key rejects a second row with the id.
TankManager_add(c, tank) ==
    IF tank.id \in Ids(c.db.tanks)
    THEN Returned(c, RetRaise("IntegrityError"))
    ELSE Returned(
           commit(execute(c, [c.db EXCEPT !.tanks = @ \cup {TankRow(tank)}])),
           RetNone)

\* UPDATE tanks SET ... WHERE id = ?; rowcount > 0.
TankManager_update(c, tank) ==
    LET hit == {r \in c.db.tanks : r.id = tank.id}
        d == [c.db EXCEPT !.tanks = (@ \ hit) \cup {TankRow(tank) : r \in hit}]
    IN Returned(commit(execute(c, d)), RetBool(Cardinality(hit) > 0))

\* Mutant: the delete reports success whether or not a row matched.
TankManager_delete_reports_success(c, tank_id) ==
    LET hit == {r \in c.db.tanks : r.id = tank_id}
        d == [c.db EXCEPT !.tanks = @ \ hit]
    IN Returned(commit(execute(c, d)), RetBool(TRUE))

\* DELETE FROM tanks WHERE id = ?; rowcount > 0.
TankManager_delete(c, tank_id) ==
    LET hit == {r \in c.db.tanks : r.id = tank_id}
        d == [c.db EXCEPT !.tanks = @ \ hit]
    IN Returned(commit(execute(c, d)), RetBool(Cardinality(hit) > 0))

ParamsRow(id, tank_id, params) ==
    [id |-> id, tank_id |-> tank_id, date_tested |-> params.date_tested,
     temperature |-> params.temperature, ph |-> params.ph,
     ammonia |-> params.ammonia, nitrite |-> params.nitrite,
     nitrate |-> params.nitrate, salinity |-> params.salinity]

\* INSERT INTO water_parameters: AUTOINCREMENT hands out wp_seq + 1.
InsertParams(d, tank_id, params) ==
    [d EXCEPT !.water_parameters =
                 @ \cup {ParamsRow(d.wp_seq + 1, tank_id, params)},
              !.wp_seq = @ + 1]

\* Mutant: the tank's rows are overwritten in place of a new row being
\* inserted.
TankManager_update_water_params_overwrite(c, tank_id, params) ==
    Returned(commit(execute(c,
        [c.db EXCEPT !.water_parameters =
            {IF w.tank_id = tank_id THEN ParamsRow(w.id, tank_id, params)
             ELSE w : w \in @}])),
        RetBool(TRUE))

\* The insert is unconditional and the result is always True.
TankManager_update_water_params(c, tank_id, params) ==
    Returned(commit(execute(c, InsertParams(c.db, tank_id, params))),
             RetBool(TRUE))

\* str.split(","): the pieces between the commas.
RECURSIVE split(_)
split(text) ==
    IF \E i \in 1..Len(text) : text[i] = ","
    THEN LET i == CHOOSE k \in 1..Len(text) :
                    text[k] = "," /\ \A j \in 1..(k - 1) : text[j] # ","
         IN <<SubSeq(text, 1, i - 1)>> \o split(SubSeq(text, i + 1, Len(text)))
    ELSE <<text>>

\* ORDER BY date_tested DESC LIMIT 1: any row of the tank with the greatest
\* date_tested; None when the tank has no row.
TankManager_get_latest_params(c, tank_id) ==
    LET rows == {w \in c.db.water_parameters : w.tank_id = tank_id}
        top == {w \in rows : \A o \in rows : o.date_tested <= w.date_tested}
    IN IF rows = {} THEN {None}
       ELSE {Some([date_tested |-> w.date_tested, temperature |-> w.temperature,
                   ph |-> w.ph, ammonia |-> w.ammonia, nitrite |-> w.nitrite,
                   nitrate |-> w.nitrate, salinity |-> w.salinity]) : w \in top}

TankManager_row_to_tank(row) ==
    [id |-> row.id, name |-> row.name, size_gallons |-> row.size_gallons,
     tank_type |-> row.tank_type, location |-> row.location,
     equipment |-> IF row.equipment # <<>> THEN split(row.equipment) ELSE <<>>,
     current_parameters |-> None]

\* The results get_by_id may give: None, or the tank (constructed by
\* _row_to_tank, and so validated) with one of its latest parameter rows.
TankManager_get_by_id(c, tank_id) ==
    LET rows == {r \in c.db.tanks : r.id = tank_id}
    IN IF rows = {} THEN {RetNone}
       ELSE IF \E r \in rows : ~Tank_post_init(TankManager_row_to_tank(r))
       THEN {RetRaise("ValueError")}
       ELSE {RetObject([TankManager_row_to_tank(r)
                          EXCEPT !.current_parameters = p]) :
               r \in rows, p \in TankManager_get_latest_params(c, tank_id)}

\* SELECT * FROM tanks has no ORDER BY: the rows come in any order, each
\* through _row_to_tank (which constructs the Tank, and so validates it) and
\* with one of its latest parameter rows.
TankManager_get_all(c) ==
    IF \E r \in c.db.tanks : ~Tank_post_init(TankManager_row_to_tank(r))
    THEN {RetRaise("ValueError")}
    ELSE {RetObject([i \in DOMAIN s |->
                       [TankManager_row_to_tank(s[i])
                          EXCEPT !.current_parameters = p[s[i].id]]]) :
            s \in {t \in [1..Cardinality(c.db.tanks) -> c.db.tanks] :
                     \A i, j \in DOMAIN t : i # j => t[i] # t[j]},
            p \in {f \in [Ids(c.db.tanks) ->
                            UNION {TankManager_get_latest_params(c, t) :
                                     t \in Ids(c.db.tanks)}] :
                     \A t \in Ids(c.db.tanks) :
                        f[t] \in TankManager_get_latest_params(c, t)}}

(***************************************************************************)
(* FishManager.                                                            *)
(***************************************************************************)
\* The columns of the fish table are the fields of Fish.
FishRow(fish) == fish

FishManager_add(c, fish) ==
    IF fish.id \in Ids(c.db.fish)
    THEN Returned(c, RetRaise("IntegrityError"))
    ELSE Returned(
           commit(execute(c, [c.db EXCEPT !.fish = @ \cup {FishRow(fish)}])),
           RetNone)

\* Mutant: INSERT OR REPLACE in the place of UPDATE.
FishManager_update_upsert(c, fish) ==
    LET hit == {r \in c.db.fish : r.id = fish.id}
        d == [c.db EXCEPT !.fish = (@ \ hit) \cup {FishRow(fish)}]
    IN Returned(commit(execute(c, d)), RetBool(Cardinality(hit) > 0))

FishManager_update(c, fish) ==
    LET hit == {r \in c.db.fish : r.id = fish.id}
        d == [c.db EXCEPT !.fish = (@ \ hit) \cup {FishRow(fish) : r \in hit}]
    IN Returned(commit(execute(c, d)), RetBool(Cardinality(hit) > 0))

\* Mutant: the UPDATE has lost its WHERE clause.
FishManager_move_to_tank_all(c, fish_id, new_tank_id) ==
    LET hit == c.db.fish
        d == [c.db EXCEPT !.fish =
                {[r EXCEPT !.tank_id = new_tank_id] : r \in hit}]
    IN Returned(commit(execute(c, d)), RetBool(Cardinality(hit) > 0))

\* UPDATE fish SET tank_id = ? WHERE id = ?
FishManager_move_to_tank(c, fish_id, new_tank_id) ==
    LET hit == {r \in c.db.fish : r.id = fish_id}
        d == [c.db EXCEPT !.fish =
                (@ \ hit) \cup {[r EXCEPT !.tank_id = new_tank_id] : r \in hit}]
    IN Returned(commit(execute(c, d)), RetBool(Cardinality(hit) > 0))

\* Mutant: the status is written without being checked.
FishManager_update_health_status_unchecked(c, fish_id, status) ==
    LET hit == {r \in c.db.fish : r.id = fish_id}
        d == [c.db EXCEPT !.fish =
                (@ \ hit) \cup {[r EXCEPT !.health_status = status] : r \in hit}]
    IN Returned(commit(execute(c, d)), RetBool(Cardinality(hit) > 0))

\* An invalid status returns before any statement runs.
FishManager_update_health_status(c, fish_id, status) ==
    IF status \notin VALID_HEALTH_STATUSES
    THEN Returned(c, RetBool(FALSE))
    ELSE LET hit == {r \in c.db.fish : r.id = fish_id}
             d == [c.db EXCEPT !.fish =
                     (@ \ hit) \cup {[r EXCEPT !.health_status = status] : r \in hit}]
         IN Returned(commit(execute(c, d)), RetBool(Cardinality(hit) > 0))

FishManager_delete(c, fish_id) ==
    LET hit == {r \in c.db.fish : r.id = fish_id}
        d == [c.db EXCEPT !.fish = @ \ hit]
    IN Returned(commit(execute(c, d)), RetBool(Cardinality(hit) > 0))

\* Mutant: the DELETE compares the id column, not tank_id.
FishManager_delete_by_tank_by_id(c, tank_id) ==
    LET hit == {r \in c.db.fish : r.id = tank_id}
        d == [c.db EXCEPT !.fish = @ \ hit]
    IN Returned(commit(execute(c, d)), RetInt(Cardinality(hit)))

\* Mutant: the DELETE is never committed.
FishManager_delete_by_tank_uncommitted(c, tank_id) ==
    LET hit == {r \in c.db.fish : r.tank_id = tank_id}
        d == [c.db EXCEPT !.fish = @ \ hit]
    IN Returned(execute(c, d), RetInt(Cardinality(hit)))

\* DELETE FROM fish WHERE tank_id = ?; rowcount.
FishManager_delete_by_tank(c, tank_id) ==
    LET hit == {r \in c.db.fish : r.tank_id = tank_id}
        d == [c.db EXCEPT !.fish = @ \ hit]
    IN Returned(commit(execute(c, d)), RetInt(Cardinality(hit)))

FishManager_get_by_tank(c, tank_id) ==
    {r \in c.db.fish : r.tank_id = tank_id}

\* The column values come back as the fields they were written from.
FishManager_row_to_fish(row) == row

FishManager_get_by_id(c, fish_id) ==
    LET rows == {r \in c.db.fish : r.id = fish_id}
    IN IF rows = {} THEN None
       ELSE Some(FishManager_row_to_fish(CHOOSE r \in rows : TRUE))

(***************************************************************************)
(* MaintenanceManager.                                                     *)
(***************************************************************************)
LogRow(log, water_params_id) ==
    [id |-> log.id, tank_id |-> log.tank_id, date |-> log.date,
     activity_type |-> log.activity_type, description |-> log.description,
     water_params_id |-> water_params_id]

\* Mutant: INSERT OR REPLACE in the place of INSERT, so a second add with a
\* stored id overwrites the stored log.
MaintenanceManager_add_replace(c, log) ==
    LET c1 == IF log.water_params # None
              THEN execute(c, InsertParams(c.db, log.tank_id, log.water_params[1]))
              ELSE c
        water_params_id == IF log.water_params # None
                           THEN Some(c1.db.wp_seq) ELSE None
        kept == {r \in c1.db.maintenance_logs : r.id # log.id}
    IN Returned(
         commit(execute(c1, [c1.db EXCEPT !.maintenance_logs =
                                kept \cup {LogRow(log, water_params_id)}])),
         RetNone)

\* The snapshot row is inserted first; when the log row is then rejected by
\* the primary key the call raises before commit, and the snapshot row stays
\* in the connection's open transaction.
MaintenanceManager_add(c, log) ==
    LET c1 == IF log.water_params # None
              THEN execute(c, InsertParams(c.db, log.tank_id, log.water_params[1]))
              ELSE c
        water_params_id == IF log.water_params # None
                           THEN Some(c1.db.wp_seq) ELSE None
    IN IF log.id \in Ids(c1.db.maintenance_logs)
       THEN Returned(c1, RetRaise("IntegrityError"))
       ELSE Returned(
              commit(execute(c1, [c1.db EXCEPT !.maintenance_logs =
                                     @ \cup {LogRow(log, water_params_id)}])),
              RetNone)

\* Mutant: the attached snapshots are left behind.
MaintenanceManager_delete_by_tank_keep_params(c, tank_id) ==
    LET hit == {r \in c.db.maintenance_logs : r.tank_id = tank_id}
        d == [c.db EXCEPT !.maintenance_logs = @ \ hit]
    IN Returned(commit(execute(c, d)), RetInt(Cardinality(hit)))

\* Mutant: the subquery has lost its WHERE clause, so the snapshots of every
\* tank's logs go.
MaintenanceManager_delete_by_tank_all_params(c, tank_id) ==
    LET hit == {r \in c.db.maintenance_logs : r.tank_id = tank_id}
        wp_ids == {r.water_params_id[1] :
                     r \in {h \in c.db.maintenance_logs : h.water_params_id # None}}
        d1 == [c.db EXCEPT !.water_parameters =
                 {w \in @ : w.id \notin wp_ids}]
        d2 == [d1 EXCEPT !.maintenance_logs = @ \ hit]
    IN Returned(commit(execute(execute(c, d1), d2)), RetInt(Cardinality(hit)))

\* DELETE FROM water_parameters WHERE id IN (SELECT water_params_id ...);
\* DELETE FROM maintenance_logs WHERE tank_id = ?; rowcount of the second.
MaintenanceManager_delete_by_tank(c, tank_id) ==
    LET hit == {r \in c.db.maintenance_logs : r.tank_id = tank_id}
        wp_ids == {r.water_params_id[1] :
                     r \in {h \in hit : h.water_params_id # None}}
        d1 == [c.db EXCEPT !.water_parameters =
                 {w \in @ : w.id \notin wp_ids}]
        d2 == [d1 EXCEPT !.maintenance_logs = @ \ hit]
    IN Returned(commit(execute(execute(c, d1), d2)), RetInt(Cardinality(hit)))

\* The WaterParameters built from a water_parameters row.
WaterParametersOfRow(w) ==
    [date_tested |-> w.date_tested, temperature |-> w.temperature,
     ph |-> w.ph, ammonia |-> w.ammonia, nitrite |-> w.nitrite,
     nitrate |-> w.nitrate, salinity |-> w.salinity]

\* ORDER BY key DESC: the rows, each once, never a smaller key before a
\* greater one; key maps each row to its sort key.  SQL leaves the order of
\* rows with equal keys open.
OrderByDesc(rows, key) ==
    {s \in [1..Cardinality(rows) -> rows] :
        /\ \A i, j \in DOMAIN s : i # j => s[i] # s[j]
        /\ \A i, j \in DOMAIN s : i < j => key[s[i]] >= key[s[j]]}

\* Mutant: one row more than asked for.
Limit_one_more(s, n) ==
    IF n < 0 \/ n + 1 >= Len(s) THEN s ELSE SubSeq(s, 1, n + 1)

\* LIMIT n: the first n rows; a negative n is no limit.
Limit(s, n) ==
    IF n < 0 \/ n >= Len(s) THEN s ELSE SubSeq(s, 1, n)

\* _row_to_log: the snapshot is looked up by water_params_id; the log is
\* then constructed, which validates activity_type.
MaintenanceManager_row_to_log(c, row) ==
    LET wp_rows == IF row.water_params_id # None
                   THEN {w \in c.db.water_parameters :
                           w.id = row.water_params_id[1]}
                   ELSE {}
    IN MaintenanceLog(row.id, row.tank_id, row.date, row.activity_type,
                      row.description,
                      IF wp_rows = {} THEN None
                      ELSE Some(WaterParametersOfRow(CHOOSE w \in wp_rows : TRUE)))

LogDate(row) == row.date

LogId(row) == row.id

\* Mutant: the ORDER BY clause is missing and the rows come as inserted.
MaintenanceManager_select_unordered(c, rows, n) ==
    {RetObject([i \in DOMAIN Limit(s, n) |->
                   MaintenanceManager_row_to_log(c, Limit(s, n)[i])]) :
       s \in {t \in [1..Cardinality(rows) -> rows] :
                \A i, j \in DOMAIN t : i < j => LogId(t[i]) < LogId(t[j])}}

\* SELECT ... ORDER BY date DESC [LIMIT n], each row through _row_to_log:
\* the results the query may give.  A row that does not construct raises
\* out of the list comprehension.
MaintenanceManager_select(c, rows, n) ==
    IF \E r \in rows :
          ~(MaintenanceManager_row_to_log(c, r).activity_type
               \in VALID_ACTIVITY_TYPES)
    THEN {RetRaise("ValueError")}
    ELSE {RetObject([i \in DOMAIN Limit(s, n) |->
                        MaintenanceManager_row_to_log(c, Limit(s, n)[i])]) :
            s \in OrderByDesc(rows, [r \in rows |-> LogDate(r)])}

MaintenanceManager_get_all(c) ==
    MaintenanceManager_select(c, c.db.maintenance_logs, -1)

MaintenanceManager_get_by_tank(c, tank_id) ==
    MaintenanceManager_select(
        c, {r \in c.db.maintenance_logs : r.tank_id = tank_id}, -1)

MaintenanceManager_get_recent(c, limit) ==
    MaintenanceManager_select(c, c.db.maintenance_logs, limit)

\* "if tank_id:" holds for every UUID, so only None takes the second query.
MaintenanceManager_get_by_activity_type(c, activity_type, tank_id) ==
    MaintenanceManager_select(
        c,
        IF tank_id # None
        THEN {r \in c.db.maintenance_logs :
                r.activity_type = activity_type /\ r.tank_id = tank_id[1]}
        ELSE {r \in c.db.maintenance_logs : r.activity_type = activity_type},
        -1)

JoinedDateTested(j) == j[1].date_tested

\* SELECT wp.* FROM water_parameters wp JOIN maintenance_logs ml
\* ON wp.id = ml.water_params_id WHERE ml.tank_id = ? AND
\* ml.activity_type = 'water_test' ORDER BY wp.date_tested DESC LIMIT ?
MaintenanceManager_get_water_param_history(c, tank_id, limit) ==
    LET joined == {j \in c.db.water_parameters \X c.db.maintenance_logs :
                     /\ j[2].water_params_id = Some(j[1].id)
                     /\ j[2].tank_id = tank_id
                     /\ j[2].activity_type = "water_test"}
    IN {RetObject([i \in DOMAIN Limit(s, limit) |->
                      WaterParametersOfRow(Limit(s, limit)[i][1])]) :
          s \in OrderByDesc(joined, [j \in joined |-> JoinedDateTested(j)])}

\* str.strip on a text: the blanks at both ends go.
RECURSIVE lstrip(_)
lstrip(text) ==
    IF text # <<>> /\ Head(text) = " " THEN lstrip(Tail(text)) ELSE text

RECURSIVE rstrip(_)
rstrip(text) ==
    IF text # <<>> /\ text[Len(text)] = " "
    THEN rstrip(SubSeq(text, 1, Len(text) - 1)) ELSE text

strip(text) == rstrip(lstrip(text))

\* Mutant: the log is built and returned, but never added.
AddAndReturn_not_added(c, log) == Returned(c, RetObject(log))

\* Each log_* builds the log (a fresh id, the current instant), adds it and
\* returns it; add's exception, if any, propagates.
AddAndReturn(c, log) ==
    LET r == MaintenanceManager_add(c, log)
    IN IF r.ret = RetNone THEN Returned(r, RetObject(log)) ELSE r

\* "if percentage:" is false for None and for 0.
MaintenanceManager_log_water_change(c, tank_id, description, percentage, id, now) ==
    LET text == IF percentage # None /\ percentage[1] # 0
                THEN strip(<<ToString(percentage[1]), "%", " ", "water", " ",
                             "change", ".", " ">> \o description)
                ELSE description
    IN AddAndReturn(c, MaintenanceLog(id, tank_id, now, "water_change", text, None))

MaintenanceManager_log_feeding(c, tank_id, description, id, now) ==
    AddAndReturn(c, MaintenanceLog(id, tank_id, now, "feeding", description, None))

\* Mutant: the snapshot is not handed to the log.
MaintenanceManager_log_water_test_without_params(c, tank_id, params, notes, id, now) ==
    AddAndReturn(c,
        MaintenanceLog(id, tank_id, now, "water_test",
                       IF notes # <<>> THEN notes
                       ELSE <<"Water", " ", "parameters", " ", "tested">>,
                       None))

MaintenanceManager_log_water_test(c, tank_id, params, notes, id, now) ==
    AddAndReturn(c,
        MaintenanceLog(id, tank_id, now, "water_test",
                       IF notes # <<>> THEN notes
                       ELSE <<"Water", " ", "parameters", " ", "tested">>,
                       Some(params)))

MaintenanceManager_log_filter_clean(c, tank_id, description, id, now) ==
    AddAndReturn(c,
        MaintenanceLog(id, tank_id, now, "filter_clean", description, None))

MaintenanceManager_log_equipment_check(c, tank_id, description, id, now) ==
    AddAndReturn(c,
        MaintenanceLog(id, tank_id, now, "equipment_check", description, None))

MaintenanceManager_log_medication(c, tank_id, description, id, now) ==
    AddAndReturn(c,
        MaintenanceLog(id, tank_id, now, "medication", description, None))

TankObjects ==
    {t \in {Tank(id, n, 10, "freshwater") : id \in TankIds, n \in TankNames} :
       Tank_post_init(t)}

FishObjects ==
    {f \in {Fish(x[1], x[2], x[3], 1, x[4]) :
              x \in FishIds \X FishNames \X TankIds \X StatusInputs} :
       Fish_post_init(f)}

ParamInputs == {WaterParameters(1, Some(78))}

LogObjects ==
    {l \in {MaintenanceLog(x[1], x[2], 1, x[3][1], <<"note">>, x[3][2]) :
              x \in LogIds \X TankIds \X
                    ({<<"feeding", None>>} \cup
                     {<<"water_test", Some(p)>> : p \in ParamInputs})} :
       MaintenanceLog_post_init(l)}

(***************************************************************************)
(* State.                                                                  *)
(*   db, disk  the connection's view and the committed database            *)
(*   uuids     how many uuid4() values each entity type has drawn          *)
(*   clock     datetime.now() / date.today()                               *)
(*   casc      the position of a running delete_tank cascade, its tank    *)
(*             and the row counts its bulk deletes have returned           *)
(*   last      the last call: its name, arguments and result               *)
(***************************************************************************)
conn == [db |-> db, disk |-> disk]

Idle == [pc |-> "idle", tank |-> 0, fish |-> 0, logs |-> 0]

\* A store with one tank, one water test of it and the tank's current
\* parameters, built by the calls that produce it.
SeededDatabase ==
    LET c0 == [db |-> EmptyDatabase, disk |-> EmptyDatabase]
        c1 == TankManager_add(c0, Tank(1, "Reef", 10, "freshwater"))
        c2 == MaintenanceManager_add(c1,
                 MaintenanceLog(1, 1, 1, "water_test", <<"note">>,
                                Some(WaterParameters(1, Some(78)))))
    IN c2.db

InitWith(stores) ==
    /\ db \in stores
    /\ disk = db
    /\ uuids = [tank |-> 0, fish |-> 0, log |-> 0]
    /\ clock = 1
    /\ casc = Idle
    /\ last = [op |-> "init", args |-> <<>>, ret |-> RetNone]

Init == InitWith({EmptyDatabase})

\* The call op(args) returned r: the connection and the result are recorded.
Call(op, args, r) ==
    /\ db' = r.db
    /\ disk' = r.disk
    /\ last' = [op |-> op, args |-> args, ret |-> r.ret]

(***************************************************************************)
(* The manager interface, called with any arguments.                       *)
(***************************************************************************)
CallTankAdd ==
    \E tank \in TankObjects :
        /\ Call("TankManager.add", <<tank>>, TankManager_add(conn, tank))
        /\ UNCHANGED <<uuids, clock, casc>>

CallTankUpdate ==
    \E tank \in TankObjects :
        /\ Call("TankManager.update", <<tank>>, TankManager_update(conn, tank))
        /\ UNCHANGED <<uuids, clock, casc>>

CallTankDelete ==
    \E tank_id \in TankIds :
        /\ Call("TankManager.delete", <<tank_id>>,
                TankManager_delete(conn, tank_id))
        /\ UNCHANGED <<uuids, clock, casc>>

CallUpdateWaterParams ==
    \E tank_id \in TankIds, params \in ParamInputs :
        /\ db.wp_seq < MaxParamRows
        /\ Call("TankManager.update_water_params", <<tank_id, params>>,
                TankManager_update_water_params(conn, tank_id, params))
        /\ UNCHANGED <<uuids, clock, casc>>

CallFishAdd(objects) ==
    \E fish \in objects :
        /\ Call("FishManager.add", <<fish>>, FishManager_add(conn, fish))
        /\ UNCHANGED <<uuids, clock, casc>>

CallFishUpdate ==
    \E fish \in FishObjects :
        /\ Call("FishManager.update", <<fish>>, FishManager_update(conn, fish))
        /\ UNCHANGED <<uuids, clock, casc>>

CallMoveToTank ==
    \E fish_id \in FishIds, new_tank_id \in TankIds :
        /\ Call("FishManager.move_to_tank", <<fish_id, new_tank_id>>,
                FishManager_move_to_tank(conn, fish_id, new_tank_id))
        /\ UNCHANGED <<uuids, clock, casc>>

CallUpdateHealthStatus ==
    \E fish_id \in FishIds, status \in StatusInputs :
        /\ Call("FishManager.update_health_status", <<fish_id, status>>,
                FishManager_update_health_status(conn, fish_id, status))
        /\ UNCHANGED <<uuids, clock, casc>>

CallFishDelete ==
    \E fish_id \in FishIds :
        /\ Call("FishManager.delete", <<fish_id>>,
                FishManager_delete(conn, fish_id))
        /\ UNCHANGED <<uuids, clock, casc>>

CallFishDeleteByTank ==
    \E tank_id \in TankIds :
        /\ Call("FishManager.delete_by_tank", <<tank_id>>,
                FishManager_delete_by_tank(conn, tank_id))
        /\ UNCHANGED <<uuids, clock, casc>>

CallLogAdd ==
    \E log \in LogObjects :
        /\ log.water_params # None => db.wp_seq < MaxParamRows
        /\ Call("MaintenanceManager.add", <<log>>,
                MaintenanceManager_add(conn, log))
        /\ UNCHANGED <<uuids, clock, casc>>

CallLogDeleteByTank ==
    \E tank_id \in TankIds :
        /\ Call("MaintenanceManager.delete_by_tank", <<tank_id>>,
                MaintenanceManager_delete_by_tank(conn, tank_id))
        /\ UNCHANGED <<uuids, clock, casc>>

(***************************************************************************)
(* FishSpec: the TankManager and FishManager interface, over an empty      *)
(* store or one that already holds a tank with a water test.               *)
(***************************************************************************)
FishInit == InitWith({EmptyDatabase, SeededDatabase})

FishNext ==
    \/ CallTankAdd
    \/ CallTankUpdate
    \/ CallTankDelete
    \/ CallFishAdd(FishObjects)
    \/ CallFishUpdate
    \/ CallMoveToTank
    \/ CallUpdateHealthStatus
    \/ CallFishDelete

FishSpec == FishInit /\ [][FishNext]_vars

(***************************************************************************)
(* LogSpec: the bulk deletes, the log insert and update_water_params, over *)
(* a store in which tank 1 exists and the other tank ids do not.           *)
(***************************************************************************)
PlainFish == {f \in FishObjects : f.name = "Nemo" /\ f.health_status = "healthy"}

LogInit ==
    InitWith({TankManager_add([db |-> EmptyDatabase, disk |-> EmptyDatabase],
                              Tank(1, "Reef", 10, "freshwater")).db})

LogNext ==
    \/ CallUpdateWaterParams
    \/ CallFishAdd(PlainFish)
    \/ CallFishDeleteByTank
    \/ CallLogAdd
    \/ CallLogDeleteByTank

LogSpec == LogInit /\ [][LogNext]_vars

(***************************************************************************)
(* QuerySpec: the four log queries of MaintenanceManager over stores that  *)
(* hold up to MaxEntries logs of any tank, date and of two activity types, *)
(* added in any order of their dates.                                      *)
(***************************************************************************)
\* The store in which tank 1 exists and nothing else does.
OneTankDatabase ==
    TankManager_add([db |-> EmptyDatabase, disk |-> EmptyDatabase],
                    Tank(1, "Reef", 10, "freshwater")).db

DatedLogs ==
    {l \in {MaintenanceLog(x[1], x[2], x[3], x[4][1], <<"note">>, x[4][2]) :
              x \in (1..MaxEntries) \X TankIds \X Dates \X
                    {<<"feeding", None>>,
                     <<"water_test", Some(WaterParameters(1, Some(78)))>>}} :
       MaintenanceLog_post_init(l)}

\* MaintenanceManager.add of a log constructed with a fresh uuid4() id.
CallLogAddNew(objects) ==
    \E log \in objects :
        /\ log.id = uuids.log + 1
        /\ Call("MaintenanceManager.add", <<log>>,
                MaintenanceManager_add(conn, log))
        /\ uuids' = [uuids EXCEPT !.log = @ + 1]
        /\ UNCHANGED <<clock, casc>>

\* A query: the store is left alone and the result is recorded.
Query(op, args, results) ==
    \E ret \in results :
        /\ last' = [op |-> op, args |-> args, ret |-> ret]
        /\ UNCHANGED <<db, disk, uuids, clock, casc>>

CallLogGetAll ==
    Query("MaintenanceManager.get_all", <<>>, MaintenanceManager_get_all(conn))

CallLogGetByTank ==
    \E tank_id \in TankIds :
        Query("MaintenanceManager.get_by_tank", <<tank_id>>,
              MaintenanceManager_get_by_tank(conn, tank_id))

CallLogGetRecent ==
    \E limit \in 0..(MaxEntries - 1) :
        Query("MaintenanceManager.get_recent", <<limit>>,
              MaintenanceManager_get_recent(conn, limit))

CallLogGetByActivityType ==
    \E activity_type \in {"feeding", "water_test"},
       tank_id \in {None} \cup {Some(t) : t \in TankIds} :
        Query("MaintenanceManager.get_by_activity_type",
              <<activity_type, tank_id>>,
              MaintenanceManager_get_by_activity_type(conn, activity_type, tank_id))

QueryInit == InitWith({OneTankDatabase})

QueryNext ==
    \/ CallLogAddNew(DatedLogs)
    \/ CallLogGetAll
    \/ CallLogGetByTank
    \/ CallLogGetRecent
    \/ CallLogGetByActivityType

QuerySpec == QueryInit /\ [][QueryNext]_vars

(***************************************************************************)
(* ParamSpec: water tests logged with any log date and any date_tested of  *)
(* the snapshot, update_water_params with any date_tested, and the reads   *)
(* of the history and of the current parameters.                           *)
(***************************************************************************)
TestLogs ==
    {l \in {MaintenanceLog(x[1], x[2], x[3], "water_test", <<"note">>,
                           Some(WaterParameters(x[4], Some(78)))) :
              x \in (1..MaxEntries) \X TankIds \X Dates \X Dates} :
       MaintenanceLog_post_init(l)}

CallLogAddTest ==
    /\ db.wp_seq < MaxEntries
    /\ CallLogAddNew(TestLogs)

CallUpdateWaterParamsDated ==
    \E tank_id \in TankIds, date_tested \in Dates :
        /\ db.wp_seq < MaxEntries
        /\ Call("TankManager.update_water_params",
                <<tank_id, WaterParameters(date_tested, Some(80))>>,
                TankManager_update_water_params(
                    conn, tank_id, WaterParameters(date_tested, Some(80))))
        /\ UNCHANGED <<uuids, clock, casc>>

CallGetWaterParamHistory ==
    \E tank_id \in TankIds, limit \in 1..(MaxEntries - 1) :
        Query("MaintenanceManager.get_water_param_history", <<tank_id, limit>>,
              MaintenanceManager_get_water_param_history(conn, tank_id, limit))

CallTankGetById ==
    \E tank_id \in TankIds :
        Query("TankManager.get_by_id", <<tank_id>>,
              TankManager_get_by_id(conn, tank_id))

ParamNext ==
    \/ CallLogAddTest
    \/ CallUpdateWaterParamsDated
    \/ CallGetWaterParamHistory
    \/ CallTankGetById

ParamSpec == QueryInit /\ [][ParamNext]_vars

(***************************************************************************)
(* EntitySpec: entities are constructed from any input, the ones that      *)
(* construct are added with a fresh id, the console edits a stored tank,   *)
(* and the tanks are read back.                                            *)
(***************************************************************************)
\* Equipment is a list of names, a name a sequence of characters.
EquipmentInputs ==
    {<<<<>>, None>>,
     <<<<<<"h">>, <<"p", "h">>>>, Some(WaterParameters(1, Some(78)))>>,
     <<<<<<>>>>, None>>}

\* Tank(...): the constructor raises ValueError or gives the object, which
\* TankManager.add then stores.
NewTank ==
    \E name \in {"", "Reef"}, size_gallons \in {-5, 0, 10},
       tank_type \in TankTypeInputs, e \in EquipmentInputs :
        LET tank == [Tank(uuids.tank + 1, name, size_gallons, tank_type)
                       EXCEPT !.equipment = e[1],
                              !.current_parameters = e[2]]
        IN /\ uuids.tank < MaxTanks
           /\ IF Tank_post_init(tank)
              THEN /\ Call("TankManager.add", <<tank>>,
                           TankManager_add(conn, tank))
                   /\ uuids' = [uuids EXCEPT !.tank = @ + 1]
              ELSE /\ last' = [op |-> "Tank", args |-> <<tank>>,
                               ret |-> RetRaise("ValueError")]
                   /\ UNCHANGED <<db, disk, uuids>>
           /\ UNCHANGED <<clock, casc>>

NewFish ==
    \E name \in {"", "Nemo"}, species \in {"", "clownfish"},
       health_status \in HealthInputs :
        LET fish == [Fish(uuids.fish + 1, name, 1, clock, health_status)
                       EXCEPT !.species = species]
        IN /\ uuids.fish < MaxFish
           /\ IF Fish_post_init(fish)
              THEN /\ Call("FishManager.add", <<fish>>,
                           FishManager_add(conn, fish))
                   /\ uuids' = [uuids EXCEPT !.fish = @ + 1]
              ELSE /\ last' = [op |-> "Fish", args |-> <<fish>>,
                               ret |-> RetRaise("ValueError")]
                   /\ UNCHANGED <<db, disk, uuids>>
           /\ UNCHANGED <<clock, casc>>

\* ui/console.py _edit_tank: the tank picked from get_all() has its fields
\* assigned, which runs no validation, and is handed to update.
edit_tank ==
    \E listed \in TankManager_get_all(conn), tank_type \in TankTypeInputs :
        /\ IF listed.kind = "object"
           THEN \E i \in DOMAIN listed.v[1] :
                   LET tank == [listed.v[1][i] EXCEPT !.tank_type = tank_type]
                   IN Call("_edit_tank", <<tank>>, TankManager_update(conn, tank))
           ELSE /\ last' = [op |-> "_edit_tank", args |-> <<>>, ret |-> listed]
                /\ UNCHANGED <<db, disk>>
        /\ UNCHANGED <<uuids, clock, casc>>

CallTankGetAll ==
    Query("TankManager.get_all", <<>>, TankManager_get_all(conn))

EntityNext ==
    \/ NewTank
    \/ NewFish
    \/ CallLogAddNew({l \in TestLogs : l.id = 1 /\ l.tank_id = 1 /\ l.date = 1})
    \/ edit_tank
    \/ CallTankGetAll

EntitySpec == Init /\ [][EntityNext]_vars

(***************************************************************************)
(* LogOpsSpec: the six log_* methods, each constructing its log with a     *)
(* fresh uuid4() id at datetime.now(), while the clock advances.           *)
(***************************************************************************)
CallLogOp(op, args, r) ==
    /\ uuids.log < MaxLogs
    /\ Call(op, args, r)
    /\ uuids' = [uuids EXCEPT !.log = @ + 1]
    /\ UNCHANGED <<clock, casc>>

Tick ==
    /\ clock < MaxDate
    /\ clock' = clock + 1
    /\ UNCHANGED <<db, disk, uuids, casc, last>>

LogOpsNext ==
    \/ \E tank_id \in TankIds, description \in {<<>>, <<"note">>},
          percentage \in {None, Some(0), Some(25), Some(-5)} :
          CallLogOp("MaintenanceManager.log_water_change",
                    <<tank_id, description, percentage>>,
                    MaintenanceManager_log_water_change(
                        conn, tank_id, description, percentage,
                        uuids.log + 1, clock))
    \/ \E tank_id \in TankIds, description \in Descriptions :
          CallLogOp("MaintenanceManager.log_feeding", <<tank_id, description>>,
                    MaintenanceManager_log_feeding(
                        conn, tank_id, description, uuids.log + 1, clock))
    \/ \E tank_id \in TankIds, notes \in {<<>>, <<"note">>} :
          CallLogOp("MaintenanceManager.log_water_test",
                    <<tank_id, WaterParameters(clock, Some(78)), notes>>,
                    MaintenanceManager_log_water_test(
                        conn, tank_id, WaterParameters(clock, Some(78)), notes,
                        uuids.log + 1, clock))
    \/ \E tank_id \in TankIds, description \in Descriptions :
          CallLogOp("MaintenanceManager.log_filter_clean",
                    <<tank_id, description>>,
                    MaintenanceManager_log_filter_clean(
                        conn, tank_id, description, uuids.log + 1, clock))
    \/ \E tank_id \in TankIds, description \in Descriptions :
          CallLogOp("MaintenanceManager.log_equipment_check",
                    <<tank_id, description>>,
                    MaintenanceManager_log_equipment_check(
                        conn, tank_id, description, uuids.log + 1, clock))
    \/ \E tank_id \in TankIds, description \in Descriptions :
          CallLogOp("MaintenanceManager.log_medication",
                    <<tank_id, description>>,
                    MaintenanceManager_log_medication(
                        conn, tank_id, description, uuids.log + 1, clock))
    \/ Tick

LogOpsSpec == QueryInit /\ [][LogOpsNext]_vars

(***************************************************************************)
(* The callers.  Each HTTP handler of api/app.py is one action; the        *)
(* console menu entries of ui/console.py make the same manager calls on    *)
(* tanks and fish picked from the store.  delete_tank is three manager     *)
(* calls; casc holds its position between them.                            *)
(***************************************************************************)
ActivityInputs == {"feeding", "water_test", "vacuum"}

\* The handler answered with an HTTP status and touched nothing.
Respond(op, args, status) ==
    /\ last' = [op |-> op, args |-> args, ret |-> RetInt(status)]
    /\ UNCHANGED <<db, disk>>

\* The handler answered with status after the manager call returned r.
Handled(op, args, r, status) ==
    /\ db' = r.db
    /\ disk' = r.disk
    /\ last' = [op |-> op, args |-> args, ret |-> RetInt(status)]

create_tank ==
    \E tank_type \in TankTypeInputs :
        LET tank == Tank(uuids.tank + 1, "Reef", 10, tank_type)
        IN /\ casc = Idle
           /\ uuids.tank < MaxTanks
           /\ IF Tank_post_init(tank)
              THEN /\ Handled("create_tank", <<>>,
                              TankManager_add(conn, tank), 201)
                   /\ uuids' = [uuids EXCEPT !.tank = @ + 1]
              ELSE /\ Respond("create_tank", <<>>, 400)
                   /\ UNCHANGED uuids
           /\ UNCHANGED <<clock, casc>>

create_fish ==
    \E tank_id \in TankIds, health_status \in HealthInputs :
        LET fish == Fish(uuids.fish + 1, "Nemo", tank_id, clock, health_status)
        IN /\ casc = Idle
           /\ uuids.fish < MaxFish
           /\ IF Fish_post_init(fish)
              THEN /\ Handled("create_fish", <<>>,
                              FishManager_add(conn, fish), 201)
                   /\ uuids' = [uuids EXCEPT !.fish = @ + 1]
              ELSE /\ Respond("create_fish", <<>>, 400)
                   /\ UNCHANGED uuids
           /\ UNCHANGED <<clock, casc>>

\* data carries an optional tank_id and an optional health_status; every
\* other field is taken from the stored fish.
update_fish ==
    \E fish_id \in FishIds,
       tank_id \in {None} \cup {Some(t) : t \in TankIds},
       health_status \in {None, Some("bogus")} :
        LET fish == FishManager_get_by_id(conn, fish_id)
            updated_fish ==
                [fish[1] EXCEPT
                   !.tank_id = IF tank_id # None THEN tank_id[1] ELSE @,
                   !.health_status =
                       IF health_status # None THEN health_status[1] ELSE @]
        IN /\ casc = Idle
           /\ IF fish = None
              THEN Respond("update_fish", <<>>, 404)
              ELSE IF Fish_post_init(updated_fish)
              THEN Handled("update_fish", <<>>,
                           FishManager_update(conn, updated_fish), 200)
              ELSE Respond("update_fish", <<>>, 400)
           /\ UNCHANGED <<uuids, clock, casc>>

move_fish ==
    \E fish_id \in FishIds, tank_id \in TankIds :
        LET r == FishManager_move_to_tank(conn, fish_id, tank_id)
        IN /\ casc = Idle
           /\ Handled("move_fish", <<>>, r,
                      IF r.ret.b THEN 200 ELSE 404)
           /\ UNCHANGED <<uuids, clock, casc>>

create_maintenance_log ==
    \E tank_id \in TankIds, activity_type \in ActivityInputs,
       description \in Descriptions :
        LET id == uuids.log + 1
            r == CASE activity_type = "water_change" ->
                        MaintenanceManager_log_water_change(
                            conn, tank_id, description, None, id, clock)
                   [] activity_type = "feeding" ->
                        MaintenanceManager_log_feeding(
                            conn, tank_id, description, id, clock)
                   [] activity_type = "filter_clean" ->
                        MaintenanceManager_log_filter_clean(
                            conn, tank_id, description, id, clock)
                   [] activity_type = "equipment_check" ->
                        MaintenanceManager_log_equipment_check(
                            conn, tank_id, description, id, clock)
                   [] activity_type = "medication" ->
                        MaintenanceManager_log_medication(
                            conn, tank_id, description, id, clock)
                   [] activity_type = "water_test" ->
                        MaintenanceManager_log_water_test(
                            conn, tank_id, WaterParameters(clock, Some(78)),
                            description, id, clock)
        IN /\ casc = Idle
           /\ IF activity_type \in VALID_ACTIVITY_TYPES
              THEN /\ uuids.log < MaxLogs
                   /\ activity_type = "water_test" => db.wp_seq < MaxParamRows
                   /\ Handled("create_maintenance_log", <<>>, r, 201)
                   /\ uuids' = [uuids EXCEPT !.log = @ + 1]
              ELSE /\ Respond("create_maintenance_log", <<>>, 400)
                   /\ UNCHANGED uuids
           /\ UNCHANGED <<clock, casc>>

\* delete_tank, first part: the lookup, then fish_manager.delete_by_tank.
delete_tank_fish ==
    \E tank_id \in TankIds :
        /\ casc = Idle
        /\ IF TankManager_get_by_id(conn, tank_id) = {RetNone}
           THEN /\ Respond("delete_tank", <<tank_id, 0, 0>>, 404)
                /\ UNCHANGED casc
           ELSE /\ Call("fish_manager.delete_by_tank", <<tank_id>>,
                        FishManager_delete_by_tank(conn, tank_id))
                /\ casc' = [pc |-> "fish_deleted", tank |-> tank_id,
                            fish |-> last'.ret.n, logs |-> 0]
        /\ UNCHANGED <<uuids, clock>>

\* delete_tank, second part: maintenance_manager.delete_by_tank.
delete_tank_logs ==
    /\ casc.pc = "fish_deleted"
    /\ Call("maintenance_manager.delete_by_tank", <<casc.tank>>,
            MaintenanceManager_delete_by_tank(conn, casc.tank))
    /\ casc' = [casc EXCEPT !.pc = "logs_deleted", !.logs = last'.ret.n]
    /\ UNCHANGED <<uuids, clock>>

\* delete_tank, last part: tank_manager.delete and the 200 answer.
delete_tank_row ==
    /\ casc.pc = "logs_deleted"
    /\ Handled("delete_tank", <<casc.tank, casc.fish, casc.logs>>,
               TankManager_delete(conn, casc.tank), 200)
    /\ casc' = Idle
    /\ UNCHANGED <<uuids, clock>>

\* The process dies between two parts of delete_tank and is started again:
\* the connection reopens on what was committed.
Interrupt ==
    /\ casc # Idle
    /\ db' = disk
    /\ disk' = disk
    /\ last' = [op |-> "interrupt", args |-> <<casc.tank, casc.pc, casc.fish, casc.logs>>,
                ret |-> RetNone]
    /\ casc' = Idle
    /\ UNCHANGED <<uuids, clock>>

Next ==
    \/ create_tank
    \/ create_fish
    \/ update_fish
    \/ move_fish
    \/ create_maintenance_log
    \/ delete_tank_fish
    \/ delete_tank_logs
    \/ delete_tank_row
    \/ Interrupt

Spec == Init /\ [][Next]_vars

(***************************************************************************)
(* EditSpec: fish are created by the handler (date_added from the clock)   *)
(* and then edited through the handlers and the manager while the clock    *)
(* advances.  A caller of FishManager.update builds the fish anew under a  *)
(* stored id, date_added taking its default, date.today().                 *)
(***************************************************************************)
EditNext ==
    \/ create_fish
    \/ update_fish
    \/ move_fish
    \/ Tick
    \/ \E fish_id \in FishIds :
          /\ Call("FishManager.update",
                  <<Fish(fish_id, "Nemo", 1, clock, "healthy")>>,
                  FishManager_update(
                      conn, Fish(fish_id, "Nemo", 1, clock, "healthy")))
          /\ UNCHANGED <<uuids, clock, casc>>
    \/ CallUpdateHealthStatus

EditSpec == QueryInit /\ [][EditNext]_vars

(***************************************************************************)
(* IdSpec: tanks and fish are created by the handlers, their ids drawn     *)
(* from uuid4(), and then updated and deleted through the managers.        *)
(***************************************************************************)
IdNext ==
    \/ create_tank
    \/ create_fish
    \/ CallTankUpdate
    \/ CallFishUpdate
    \/ CallMoveToTank
    \/ CallUpdateHealthStatus
    \/ CallUpdateWaterParams
    \/ CallTankDelete
    \/ CallFishDelete

IdSpec == Init /\ [][IdNext]_vars

(***************************************************************************)
(* ReportSpec: tanks and fish created by the handlers, health statuses     *)
(* changed, logs of any date added in any order of their dates, and the    *)
(* summary report read.                                                    *)
(***************************************************************************)
\* Mutant: the date of the last element of the list.
last_maintenance_of_last(logs) ==
    IF logs # <<>> THEN Some(logs[Len(logs)].date) ELSE None

\* logs[0].date.isoformat() if logs else None; the ISO text of a date is
\* kept as the date, the two being in one-to-one, order-preserving
\* correspondence.
last_maintenance(logs) ==
    IF logs # <<>> THEN Some(logs[1].date) ELSE None

\* api/app.py get_summary_report: one entry per tank of get_all(), built
\* from fish_manager.get_by_tank and maintenance_manager.get_by_tank; a
\* reader that raises ends the handler.
get_summary_report(c) ==
    LET fish_list(t) == FishManager_get_by_tank(c, t)
        logs(t) == MaintenanceManager_get_by_tank(c, t)
        entry(tank, l) ==
            [tank |-> tank,
             fish_count |-> Cardinality(fish_list(tank.id)),
             health_counts |->
                 [h \in VALID_HEALTH_STATUSES |->
                     Cardinality({f \in fish_list(tank.id) :
                                    FishManager_row_to_fish(f).health_status = h})],
             maintenance_count |-> Len(l),
             last_maintenance |-> last_maintenance(l)]
    IN UNION
         {IF tanks.kind # "object"
          THEN {tanks}
          ELSE IF \E i \in DOMAIN tanks.v[1] :
                     \/ \E f \in fish_list(tanks.v[1][i].id) :
                           ~Fish_post_init(FishManager_row_to_fish(f))
                     \/ logs(tanks.v[1][i].id) = {RetRaise("ValueError")}
          THEN {RetRaise("ValueError")}
          ELSE {RetObject([i \in DOMAIN tanks.v[1] |->
                              entry(tanks.v[1][i], g[i].v[1])]) :
                  g \in {f \in [DOMAIN tanks.v[1] ->
                                  UNION {logs(tanks.v[1][i].id) :
                                           i \in DOMAIN tanks.v[1]}] :
                           \A i \in DOMAIN tanks.v[1] :
                              f[i] \in logs(tanks.v[1][i].id)}} :
            tanks \in TankManager_get_all(c)}

ReportNext ==
    \/ create_tank
    \/ create_fish
    \/ CallUpdateHealthStatus
    \/ CallLogAddNew({l \in DatedLogs :
                        l.activity_type = "feeding" /\ l.id <= MaxLogs})
    \/ Query("get_summary_report", <<>>, get_summary_report(conn))

ReportSpec == Init /\ [][ReportNext]_vars

(***************************************************************************)
(* CascadeSpec: tanks created, current parameters recorded through the     *)
(* handler, logs created, and tanks deleted with their cascade.            *)
(***************************************************************************)
\* api/app.py update_water_params: 404 for a tank that is not stored; else
\* a WaterParameters tested now is recorded for the tank.
update_water_params ==
    \E tank_id \in TankIds :
        /\ casc = Idle
        /\ IF TankManager_get_by_id(conn, tank_id) = {RetNone}
           THEN Respond("update_water_params", <<tank_id>>, 404)
           ELSE /\ db.wp_seq < MaxParamRows
                /\ Handled("update_water_params", <<tank_id>>,
                           TankManager_update_water_params(
                               conn, tank_id, WaterParameters(clock, Some(78))),
                           200)
        /\ UNCHANGED <<uuids, clock, casc>>

CascadeNext ==
    \/ create_tank
    \/ update_water_params
    \/ create_maintenance_log
    \/ delete_tank_fish
    \/ delete_tank_logs
    \/ delete_tank_row

CascadeSpec == Init /\ [][CascadeNext]_vars

(***************************************************************************)
(* Properties of the callers (Spec).                                       *)
(***************************************************************************)
FishOf(d, tank_id) == {r \in d.fish : r.tank_id = tank_id}
LogsOf(d, tank_id) == {r \in d.maintenance_logs : r.tank_id = tank_id}

\* C1: every stored Fish.tank_id and every stored MaintenanceLog.tank_id is
\* the id of a stored Tank.
C1_ReferentialIntegrity ==
    /\ \A r \in db.fish : r.tank_id \in Ids(db.tanks)
    /\ \A r \in db.maintenance_logs : r.tank_id \in Ids(db.tanks)

\* C2: when delete_tank has answered 200 for tank T, get_by_tank(T) of the
\* fish manager and of the maintenance manager are empty and get_by_id(T)
\* of the tank manager is None.
C2_CascadeLeavesNothing ==
    (last.op = "delete_tank" /\ last.ret.n = 200) =>
        /\ FishManager_get_by_tank(conn, last.args[1]) = {}
        /\ MaintenanceManager_get_by_tank(conn, last.args[1]) = {RetObject(<<>>)}
        /\ TankManager_get_by_id(conn, last.args[1]) = {RetNone}

\* A cascade over a tank that had a fish and a log has completed.
C2_Witness ==
    /\ last.op = "delete_tank"
    /\ last.ret.n = 200
    /\ last.args[2] > 0
    /\ last.args[3] > 0

\* C3: a log row leaves the store only when no fish of its tank is stored,
\* and its attached snapshot leaves with it; a tank row leaves the store only
\* when no fish and no log of the tank is stored; and whenever the cascade
\* moves on, everything done so far has been committed.
C3_CascadeOrder ==
    [][/\ \A l \in db.maintenance_logs :
             l \notin db'.maintenance_logs =>
                 /\ FishOf(db, l.tank_id) = {}
                 /\ l.water_params_id # None =>
                        \A w \in db'.water_parameters :
                            w.id # l.water_params_id[1]
       /\ \A t \in Ids(db.tanks) :
             t \notin Ids(db'.tanks) =>
                 /\ FishOf(db, t) = {}
                 /\ LogsOf(db, t) = {}
                 /\ casc.pc = "logs_deleted"
       /\ casc'.pc = "logs_deleted" => casc.pc = "fish_deleted"
       /\ casc' # casc => disk' = db']_vars

\* The cascade stands between its second and third step, having deleted a
\* fish and a log of the tank.
C3_Witness ==
    /\ casc.pc = "logs_deleted"
    /\ casc.fish > 0
    /\ casc.logs > 0
    /\ casc.tank \in Ids(db.tanks)

\* C4 as claimed: after delete_tank of a tank with a fish or a log was
\* interrupted, a stored fish or log has a tank_id that is no stored tank.
C4_InterruptLeavesOrphans ==
    (last.op = "interrupt" /\ last.args[3] + last.args[4] > 0) =>
        ~C1_ReferentialIntegrity

\* C4, amended: after delete_tank of tank T was interrupted, T is still
\* stored, so no row of T is orphaned; the fish of T are gone, the logs of T
\* are gone too when the second step had run, and nothing is uncommitted.
C4_InterruptKeepsTank ==
    last.op = "interrupt" =>
        /\ last.args[1] \in Ids(db.tanks)
        /\ FishOf(db, last.args[1]) = {}
        /\ last.args[2] = "logs_deleted" => LogsOf(db, last.args[1]) = {}
        /\ db = disk

\* The cascade was interrupted after it had deleted a fish, leaving a log.
C4_Witness ==
    /\ last.op = "interrupt"
    /\ last.args[2] = "fish_deleted"
    /\ last.args[3] > 0
    /\ LogsOf(db, last.args[1]) # {}

(***************************************************************************)
(* Properties of the manager interface (FishSpec, LogSpec).  A step whose  *)
(* last' names a call is a step of that call, from db to db'.              *)
(***************************************************************************)
Called(op) == last'.op = op

WithId(table, id) == {r \in table : r.id = id}

\* C5: TankManager.update and FishManager.update of an entity whose id is
\* not stored return False, raise nothing and leave all tables as they were;
\* with a stored id they return True and put the entity's values in the place
\* of exactly that record.
C5_Update ==
    [][/\ Called("TankManager.update") =>
            LET tank == last'.args[1]
                old == WithId(db.tanks, tank.id)
            IN /\ last'.ret = RetBool(old # {})
               /\ old = {} => db' = db
               /\ old # {} =>
                    /\ \E r \in db'.tanks :
                          /\ r.id = tank.id
                          /\ r.name = tank.name
                          /\ r.size_gallons = tank.size_gallons
                          /\ r.tank_type = tank.tank_type
                          /\ r.location = tank.location
                          /\ r.equipment = join(tank.equipment)
                          /\ db'.tanks = (db.tanks \ old) \cup {r}
                    /\ [db' EXCEPT !.tanks = db.tanks] = db
       /\ Called("FishManager.update") =>
            LET fish == last'.args[1]
                old == WithId(db.fish, fish.id)
            IN /\ last'.ret = RetBool(old # {})
               /\ old = {} => db' = db
               /\ old # {} =>
                    /\ db'.fish = (db.fish \ old) \cup {fish}
                    /\ [db' EXCEPT !.fish = db.fish] = db]_vars

\* FishManager.update of an id that is not stored has returned False, with
\* another fish, a tank, a log and a snapshot in the store.
C5_Witness ==
    /\ last.op = "FishManager.update"
    /\ last.ret = RetBool(FALSE)
    /\ db.fish # {}
    /\ db.tanks # {}
    /\ db.maintenance_logs # {}
    /\ db.water_parameters # {}

\* C6: TankManager.delete and FishManager.delete of an id that is not stored
\* return False, raise nothing and leave the store as it was; with a stored
\* id they return True and remove that one record and nothing else.
C6_Delete ==
    [][/\ Called("TankManager.delete") =>
            LET old == WithId(db.tanks, last'.args[1])
            IN /\ last'.ret = RetBool(old # {})
               /\ old = {} => db' = db
               /\ old # {} =>
                    /\ Cardinality(db'.tanks) = Cardinality(db.tanks) - 1
                    /\ db' = [db EXCEPT !.tanks = @ \ old]
       /\ Called("FishManager.delete") =>
            LET old == WithId(db.fish, last'.args[1])
            IN /\ last'.ret = RetBool(old # {})
               /\ old = {} => db' = db
               /\ old # {} =>
                    /\ Cardinality(db'.fish) = Cardinality(db.fish) - 1
                    /\ db' = [db EXCEPT !.fish = @ \ old]]_vars

\* TankManager.delete of an id that is not stored has returned False while
\* another tank is stored.
C6_Witness ==
    /\ last.op = "TankManager.delete"
    /\ last.ret = RetBool(FALSE)
    /\ db.tanks # {}
    /\ db.fish # {}

\* C7: update_water_params for a tank that is not stored returns False and
\* stores no water_parameters row.
C7_UpdateWaterParamsMissingTank ==
    [][(Called("TankManager.update_water_params")
          /\ last'.args[1] \notin Ids(db.tanks)) =>
            /\ last'.ret = RetBool(FALSE)
            /\ db'.water_parameters = db.water_parameters]_vars

\* C8: update_health_status returns False when the status is not valid or
\* the fish is not stored, and then no stored fish changes; otherwise it
\* returns True and only health_status of that fish changes.
C8_UpdateHealthStatus ==
    [][Called("FishManager.update_health_status") =>
          LET fish_id == last'.args[1]
              status == last'.args[2]
              old == WithId(db.fish, fish_id)
              ok == status \in {"healthy", "sick", "recovering", "deceased"}
                      /\ old # {}
          IN /\ last'.ret = RetBool(ok)
             /\ ~ok => db' = db
             /\ ok => db' = [db EXCEPT !.fish =
                               (@ \ old) \cup
                               {[r EXCEPT !.health_status = status] : r \in old}]
       ]_vars

\* update_health_status with an invalid status on a stored, sick fish has
\* returned False.
C8_Witness ==
    /\ last.op = "FishManager.update_health_status"
    /\ last.args[2] = "bogus"
    /\ last.ret = RetBool(FALSE)
    /\ \E r \in db.fish : r.id = last.args[1] /\ r.health_status = "sick"

\* C9: move_to_tank of a stored fish changes tank_id of that fish and
\* nothing else in the store; of a fish that is not stored it returns False
\* and changes nothing.
C9_MoveToTank ==
    [][Called("FishManager.move_to_tank") =>
          LET fish_id == last'.args[1]
              new_tank_id == last'.args[2]
              old == WithId(db.fish, fish_id)
          IN /\ last'.ret = RetBool(old # {})
             /\ old = {} => db' = db
             /\ old # {} =>
                  /\ \A r \in old :
                        \E n \in db'.fish :
                            /\ n.tank_id = new_tank_id
                            /\ n = [r EXCEPT !.tank_id = new_tank_id]
                  /\ db'.fish \ WithId(db'.fish, fish_id) = db.fish \ old
                  /\ Cardinality(WithId(db'.fish, fish_id)) = 1
                  /\ [db' EXCEPT !.fish = db.fish] = db]_vars

\* A sick fish has been moved to another tank while a second fish is stored.
C9_Witness ==
    /\ last.op = "FishManager.move_to_tank"
    /\ last.ret = RetBool(TRUE)
    /\ Cardinality(db.fish) = 2
    /\ \E r \in db.fish :
          /\ r.id = last.args[1]
          /\ r.tank_id = last.args[2]
          /\ r.health_status = "sick"
          /\ r.name = "Dory"

\* C10: each delete_by_tank returns the number of rows whose tank_id was the
\* given one, removes exactly those rows, and leaves the fish and the logs of
\* every other tank, with the snapshots attached to them, as they were.
C10_DeleteByTank ==
    [][/\ Called("FishManager.delete_by_tank") =>
            LET hit == {r \in db.fish : r.tank_id = last'.args[1]}
            IN /\ last'.ret = RetInt(Cardinality(hit))
               /\ db' = [db EXCEPT !.fish = @ \ hit]
       /\ Called("MaintenanceManager.delete_by_tank") =>
            LET hit == {r \in db.maintenance_logs : r.tank_id = last'.args[1]}
            IN /\ last'.ret = RetInt(Cardinality(hit))
               /\ db'.maintenance_logs = db.maintenance_logs \ hit
               /\ db'.fish = db.fish
               /\ db'.tanks = db.tanks
               /\ \A l \in db'.maintenance_logs :
                     l.water_params_id # None =>
                         WithId(db'.water_parameters, l.water_params_id[1])
                           = WithId(db.water_parameters, l.water_params_id[1])
       ]_vars

\* MaintenanceManager.delete_by_tank has removed a log of one tank while a
\* water test of another tank, with its snapshot, stays stored.
C10_Witness ==
    /\ last.op = "MaintenanceManager.delete_by_tank"
    /\ last.ret.n > 0
    /\ \E l \in db.maintenance_logs :
          /\ l.water_params_id # None
          /\ WithId(db.water_parameters, l.water_params_id[1]) # {}
    /\ db.fish # {}

(***************************************************************************)
(* Properties of the log queries (QuerySpec).                              *)
(***************************************************************************)
\* The result of the last call, a list.
Result == last.ret.v[1]

NewestFirst(logs) ==
    \A i, j \in DOMAIN logs : i < j => logs[i].date >= logs[j].date

\* The list holds each of the rows once, as the log the row stores.
ExactlyRows(logs, rows) ==
    /\ Len(logs) = Cardinality(rows)
    /\ {logs[i].id : i \in DOMAIN logs} = Ids(rows)
    /\ \A i \in DOMAIN logs :
          \E r \in rows :
              /\ r.id = logs[i].id
              /\ r.tank_id = logs[i].tank_id
              /\ r.date = logs[i].date
              /\ r.activity_type = logs[i].activity_type

\* C11: get_all, get_by_tank, get_recent and get_by_activity_type return
\* their logs newest first (no log before one with a later date), and the
\* logs returned are exactly the stored logs that match the filter: all of
\* them, those of the tank, those of the activity type (and of the tank when
\* one is given); get_recent returns the limit newest of all logs.
C11_QueriesNewestFirst ==
    /\ last.op = "MaintenanceManager.get_all" =>
          /\ last.ret.kind = "object"
          /\ NewestFirst(Result)
          /\ ExactlyRows(Result, db.maintenance_logs)
    /\ last.op = "MaintenanceManager.get_by_tank" =>
          /\ last.ret.kind = "object"
          /\ NewestFirst(Result)
          /\ ExactlyRows(Result, {r \in db.maintenance_logs :
                                    r.tank_id = last.args[1]})
    /\ last.op = "MaintenanceManager.get_by_activity_type" =>
          /\ last.ret.kind = "object"
          /\ NewestFirst(Result)
          /\ ExactlyRows(Result,
                {r \in db.maintenance_logs :
                   /\ r.activity_type = last.args[1]
                   /\ last.args[2] # None => r.tank_id = last.args[2][1]})
    /\ last.op = "MaintenanceManager.get_recent" =>
          /\ last.ret.kind = "object"
          /\ NewestFirst(Result)
          /\ \E rows \in SUBSET db.maintenance_logs :
                /\ ExactlyRows(Result, rows)
                /\ Cardinality(rows) =
                     IF last.args[1] < Cardinality(db.maintenance_logs)
                     THEN last.args[1] ELSE Cardinality(db.maintenance_logs)
                /\ \A r \in rows, o \in db.maintenance_logs \ rows :
                      o.date <= r.date

\* get_by_tank has returned two logs of the tank, the one added first being
\* the newer and so the first, while a log of the other tank is stored.
C11_Witness ==
    /\ last.op = "MaintenanceManager.get_by_tank"
    /\ last.ret.kind = "object"
    /\ Len(Result) = 2
    /\ Result[1].id < Result[2].id
    /\ Result[1].date > Result[2].date
    /\ Cardinality(db.maintenance_logs) = 3

(***************************************************************************)
(* Properties of the water parameters (ParamSpec).                         *)
(***************************************************************************)
WaterTestsOf(d, tank_id) ==
    {r \in d.maintenance_logs :
       r.tank_id = tank_id /\ r.activity_type = "water_test"}

conn_after == [db |-> db', disk |-> disk']

\* C12: get_water_param_history(T, limit) returns the snapshots attached to
\* the water_test logs of T, in the order of the logs' dates, newest first,
\* cut to limit, whatever the snapshots' date_tested values are.
C12_HistoryByLogDate ==
    last.op = "MaintenanceManager.get_water_param_history" =>
        \E s \in OrderByDesc(WaterTestsOf(db, last.args[1]),
                             [r \in WaterTestsOf(db, last.args[1]) |-> LogDate(r)]) :
            Result = Limit([i \in DOMAIN s |->
                              MaintenanceManager_row_to_log(conn, s[i])
                                  .water_params[1]],
                           last.args[2])

\* C13: a call of update_water_params leaves every stored log with the
\* water_params it had, and leaves the results get_water_param_history may
\* give, for every tank and limit, as they were.
C13_UpdateKeepsHistory ==
    [][Called("TankManager.update_water_params") =>
          /\ db'.maintenance_logs = db.maintenance_logs
          /\ \A r \in db.maintenance_logs :
                MaintenanceManager_row_to_log(conn_after, r)
                  = MaintenanceManager_row_to_log(conn, r)
          /\ \A tank_id \in TankIds, limit \in 1..MaxEntries :
                MaintenanceManager_get_water_param_history(
                    conn_after, tank_id, limit)
                  = MaintenanceManager_get_water_param_history(
                        conn, tank_id, limit)]_vars

\* update_water_params has recorded, for a tank with two water tests, current
\* parameters whose date_tested and temperature differ from both snapshots.
C13_Witness ==
    /\ last.op = "TankManager.update_water_params"
    /\ Cardinality(WaterTestsOf(db, last.args[1])) = 2
    /\ \A r \in WaterTestsOf(db, last.args[1]) :
          LET log == MaintenanceManager_row_to_log(conn, r)
          IN /\ log.water_params # None
             /\ log.water_params[1].date_tested # last.args[2].date_tested
             /\ log.water_params[1].temperature # last.args[2].temperature

\* C14: after update_water_params(T, p) on a stored tank T, get_by_id(T) and
\* get_all() give T with current_parameters p, whatever the date_tested of
\* the snapshots recorded for T before.
C14_CurrentIsLastRecorded ==
    [][(Called("TankManager.update_water_params")
          /\ last'.args[1] \in Ids(db.tanks)) =>
            /\ \A t \in TankManager_get_by_id(conn_after, last'.args[1]) :
                  /\ t.kind = "object"
                  /\ t.v[1].current_parameters = Some(last'.args[2])
            /\ \A r \in TankManager_get_all(conn_after) :
                  /\ r.kind = "object"
                  /\ \A i \in DOMAIN r.v[1] :
                        r.v[1][i].id = last'.args[1] =>
                            r.v[1][i].current_parameters = Some(last'.args[2])
      ]_vars

(***************************************************************************)
(* Properties of construction, saving and loading (EntitySpec).            *)
(***************************************************************************)
\* C15: an entity that add has stored is read back equal in every field:
\* get_by_id gives the tank (equipment and current_parameters included) and
\* the fish that was added, and get_by_tank lists the log that was added,
\* with its water_params.
C15_SaveThenLoad ==
    [][/\ (Called("TankManager.add") /\ last'.ret = RetNone) =>
             TankManager_get_by_id(conn_after, last'.args[1].id)
               = {RetObject(last'.args[1])}
       /\ (Called("FishManager.add") /\ last'.ret = RetNone) =>
             FishManager_get_by_id(conn_after, last'.args[1].id)
               = Some(last'.args[1])
       /\ (Called("MaintenanceManager.add") /\ last'.ret = RetNone) =>
             \A r \in MaintenanceManager_get_by_tank(
                          conn_after, last'.args[1].tank_id) :
                /\ r.kind = "object"
                /\ \E i \in DOMAIN r.v[1] : r.v[1][i] = last'.args[1]]_vars

\* C16: constructing a Tank whose size_gallons is not positive or whose
\* tank_type is none of freshwater, saltwater, brackish raises ValueError and
\* stores nothing; a tank that TankManager.add receives has a positive size
\* and one of the three types.
C16_TankValidation ==
    [][/\ Called("Tank") =>
             /\ last'.ret = RetRaise("ValueError")
             /\ db' = db
       /\ (Called("Tank") \/ Called("TankManager.add")) =>
             (Called("Tank") <=>
                \/ last'.args[1].size_gallons <= 0
                \/ last'.args[1].tank_type
                      \notin {"freshwater", "saltwater", "brackish"})]_vars

\* Constructing a freshwater tank of size -5 has raised ValueError, with a
\* tank stored before.
C16_Witness ==
    /\ last.op = "Tank"
    /\ last.ret = RetRaise("ValueError")
    /\ last.args[1].size_gallons = -5
    /\ last.args[1].tank_type = "freshwater"
    /\ db.tanks # {}

\* C17: no stored Tank has an empty name and no stored Fish has an empty
\* name or species, their construction having failed.
C17_NoEmptyNames ==
    /\ \A r \in db.tanks : r.name # ""
    /\ \A r \in db.fish : r.name # "" /\ r.species # ""

\* C18: get_all never raises: it returns the tanks whose rows construct and
\* leaves out the rows that do not.
C18_LenientReads ==
    last.op = "TankManager.get_all" =>
        /\ last.ret.kind = "object"
        /\ {Result[i].id : i \in DOMAIN Result}
             = {r.id : r \in {t \in db.tanks :
                                Tank_post_init(TankManager_row_to_tank(t))}}

(***************************************************************************)
(* Properties of the log_* methods (LogOpsSpec).                           *)
(***************************************************************************)
\* The text begins with the tokens of prefix.
BeginsWith(text, prefix) ==
    /\ Len(text) >= Len(prefix)
    /\ SubSeq(text, 1, Len(prefix)) = prefix

\* C19: log_water_change with a percentage N, 0 included and with an empty
\* description too, stores a water_change log whose description begins with
\* "N% water change"; with no percentage the description is stored as given.
C19_WaterChangePhrase ==
    [][(Called("MaintenanceManager.log_water_change") /\ last' # last) =>
          /\ last'.ret.kind = "object"
          /\ \E r \in db'.maintenance_logs \ db.maintenance_logs :
                /\ r.activity_type = "water_change"
                /\ r.description = last'.ret.v[1].description
                /\ last'.args[3] # None =>
                      BeginsWith(r.description,
                                 <<ToString(last'.args[3][1]), "%", " ",
                                   "water", " ", "change">>)
                /\ last'.args[3] = None => r.description = last'.args[2]
      ]_vars

ActivityOf(op) ==
    CASE op = "MaintenanceManager.log_water_change" -> "water_change"
      [] op = "MaintenanceManager.log_feeding" -> "feeding"
      [] op = "MaintenanceManager.log_water_test" -> "water_test"
      [] op = "MaintenanceManager.log_filter_clean" -> "filter_clean"
      [] op = "MaintenanceManager.log_equipment_check" -> "equipment_check"
      [] op = "MaintenanceManager.log_medication" -> "medication"
      [] OTHER -> "none"

\* C20: each log_* call adds exactly one log row, of the given tank and of
\* the activity type of the method, returns that log, and every result
\* get_by_tank of the tank may give right afterwards lists the returned log.
C20_LogMethods ==
    [][ActivityOf(last'.op) # "none" /\ last' # last =>
          /\ last'.ret.kind = "object"
          /\ last'.ret.v[1].tank_id = last'.args[1]
          /\ last'.ret.v[1].activity_type = ActivityOf(last'.op)
          /\ Cardinality(db'.maintenance_logs)
               = Cardinality(db.maintenance_logs) + 1
          /\ \E r \in db'.maintenance_logs :
                /\ db'.maintenance_logs = db.maintenance_logs \cup {r}
                /\ r.id = last'.ret.v[1].id
                /\ r.tank_id = last'.args[1]
                /\ r.activity_type = ActivityOf(last'.op)
          /\ \A q \in MaintenanceManager_get_by_tank(conn_after, last'.args[1]) :
                /\ q.kind = "object"
                /\ \E i \in DOMAIN q.v[1] : q.v[1][i] = last'.ret.v[1]]_vars

\* log_water_test has returned its log, the second log of the tank and later
\* than the first.
C20_Witness ==
    /\ last.op = "MaintenanceManager.log_water_test"
    /\ last.ret.kind = "object"
    /\ last.ret.v[1].water_params # None
    /\ Cardinality(LogsOf(db, last.args[1])) = 2
    /\ \E r \in LogsOf(db, last.args[1]) : r.date < last.ret.v[1].date

(***************************************************************************)
(* Properties of stored logs (LogSpec).                                    *)
(***************************************************************************)
\* C21: no step of any manager changes a stored log: a stored log row is
\* either still stored, unchanged and decoding to the same log (tank_id,
\* date, activity_type, description, water_params), or it has been removed
\* by MaintenanceManager.delete_by_tank of its tank.
C21_LogsAppendOnly ==
    [][\A r \in db.maintenance_logs :
          \/ /\ r \in db'.maintenance_logs
             /\ Cardinality(WithId(db'.maintenance_logs, r.id)) = 1
             /\ MaintenanceManager_row_to_log(conn_after, r)
                  = MaintenanceManager_row_to_log(conn, r)
          \/ /\ WithId(db'.maintenance_logs, r.id) = {}
             /\ Called("MaintenanceManager.delete_by_tank")
             /\ last'.args[1] = r.tank_id]_vars

\* An add of a feeding log under the id of a stored water test has been
\* rejected, the water test and its snapshot staying as they were.
C21_Witness ==
    /\ last.op = "MaintenanceManager.add"
    /\ last.ret = RetRaise("IntegrityError")
    /\ last.args[1].activity_type = "feeding"
    /\ \E r \in db.maintenance_logs :
          /\ r.id = last.args[1].id
          /\ r.activity_type = "water_test"
          /\ MaintenanceManager_row_to_log(conn, r).water_params # None

(***************************************************************************)
(* Properties of edits (EditSpec, IdSpec, FishSpec).                       *)
(***************************************************************************)
\* C22: no step changes date_added of a stored fish: a fish that is stored
\* before and after a step has the date_added it had.
C22_DateAddedImmutable ==
    [][\A r \in db.fish :
          \A n \in db'.fish : n.id = r.id => n.date_added = r.date_added]_vars

\* C23: every stored fish has one of the four health statuses.
C23_HealthStatusValid ==
    \A r \in db.fish :
        r.health_status \in {"healthy", "sick", "recovering", "deceased"}

\* FishManager.update has replaced a stored fish by a sick one, a second
\* fish being stored.
C23_Witness ==
    /\ last.op = "FishManager.update"
    /\ last.ret = RetBool(TRUE)
    /\ last.args[1].health_status = "sick"
    /\ Cardinality(db.fish) = 2

\* C25: update, move_to_tank, update_health_status and update_water_params
\* leave the ids of the stored tanks, fish and logs as they were, one row
\* each; and an id that a step newly stores was never drawn before, so it is
\* not the id of an entity stored and deleted earlier.
C25_IdentifiersStable ==
    [][/\ (last' # last /\
           last'.op \in {"TankManager.update", "FishManager.update",
                         "FishManager.move_to_tank",
                         "FishManager.update_health_status",
                         "TankManager.update_water_params"}) =>
             /\ Ids(db'.tanks) = Ids(db.tanks)
             /\ Ids(db'.fish) = Ids(db.fish)
             /\ Ids(db'.maintenance_logs) = Ids(db.maintenance_logs)
             /\ Cardinality(db'.tanks) = Cardinality(Ids(db.tanks))
             /\ Cardinality(db'.fish) = Cardinality(Ids(db.fish))
       /\ \A id \in Ids(db'.tanks) \ Ids(db.tanks) : id > uuids.tank
       /\ \A id \in Ids(db'.fish) \ Ids(db.fish) : id > uuids.fish]_vars

\* The first tank was deleted and a second one created: it has the second
\* id, and a fish is stored.
C25_Witness ==
    /\ last.op = "create_tank"
    /\ last.ret.n = 201
    /\ Ids(db.tanks) = {2}
    /\ db.fish # {}

\* C24: after any log_* calls, a stored log of an activity type other than
\* water_test has no snapshot, a log_water_test call stores a log that
\* carries the snapshot it was given, and a stored water test keeps one.
C24_ParamsOnlyOnWaterTests ==
    [][/\ \A r \in db'.maintenance_logs :
             /\ r.activity_type # "water_test" =>
                   /\ r.water_params_id = None
                   /\ MaintenanceManager_row_to_log(conn_after, r).water_params
                        = None
             /\ r.activity_type = "water_test" =>
                   MaintenanceManager_row_to_log(conn_after, r).water_params
                     # None
       /\ (Called("MaintenanceManager.log_water_test") /\ last' # last) =>
             \E r \in db'.maintenance_logs \ db.maintenance_logs :
                MaintenanceManager_row_to_log(conn_after, r).water_params
                  = Some(last'.args[2])]_vars

\* A water change has been logged for a tank that has a water test with its
\* snapshot.
C24_Witness ==
    /\ last.op = "MaintenanceManager.log_water_change"
    /\ last.ret.kind = "object"
    /\ \E r \in LogsOf(db, last.args[1]) :
          /\ r.activity_type = "water_test"
          /\ MaintenanceManager_row_to_log(conn, r).water_params # None

\* C26: after any sequence of constructions, adds and console edits, every
\* stored tank has a positive size and one of the three tank types.
C26_StoredTanksValid ==
    \A r \in db.tanks :
        /\ r.size_gallons > 0
        /\ r.tank_type \in {"freshwater", "saltwater", "brackish"}

\* C27: a summary report lists every stored tank, and for each of them
\* last_maintenance is the greatest date among the tank's stored logs (null
\* when it has none), fish_count is the number of stored fish of the tank,
\* and the four health counts add up to fish_count.
C27_SummaryReport ==
    (last.op = "get_summary_report" /\ last.ret.kind = "object") =>
        /\ {Result[i].tank.id : i \in DOMAIN Result} = Ids(db.tanks)
        /\ \A i \in DOMAIN Result :
              LET e == Result[i]
                  stored == LogsOf(db, e.tank.id)
              IN /\ e.last_maintenance =
                       IF stored = {} THEN None
                       ELSE Some(CHOOSE d \in {r.date : r \in stored} :
                                    \A r \in stored : r.date <= d)
                 /\ e.fish_count = Cardinality(FishOf(db, e.tank.id))
                 /\ e.health_counts["healthy"] + e.health_counts["sick"]
                      + e.health_counts["recovering"]
                      + e.health_counts["deceased"] = e.fish_count

\* A report has been returned for a tank whose later log was added before
\* its earlier one and which holds a sick fish; another tank has no log.
C27_Witness ==
    /\ last.op = "get_summary_report"
    /\ last.ret.kind = "object"
    /\ \E i, j \in DOMAIN Result :
          /\ Result[j].last_maintenance = None
          /\ Result[i].health_counts["sick"] > 0
          /\ \E r, s \in LogsOf(db, Result[i].tank.id) :
                r.id < s.id /\ r.date > s.date

\* C28: when delete_tank has answered 200 for tank T, no water_parameters
\* row refers to T, whether it was attached to a log of T or recorded by
\* update_water_params, and the water-parameter history of T is empty.
C28_CascadeRemovesParams ==
    (last.op = "delete_tank" /\ last.ret.n = 200) =>
        /\ \A p \in db.water_parameters : p.tank_id # last.args[1]
        /\ \A p \in disk.water_parameters : p.tank_id # last.args[1]
        /\ MaintenanceManager_get_water_param_history(conn, last.args[1], -1)
             = {RetObject(<<>>)}

\* C29: MaintenanceManager.add is all-or-nothing: an add that fails on the
\* maintenance_logs insert leaves the water_parameters table as it was,
\* and after every manager operation nothing is pending on the connection:
\* what the connection sees is what is committed.
C29_AddAllOrNothing ==
    [][/\ db' = disk'
       /\ (/\ Called("MaintenanceManager.add")
           /\ last'.ret = RetRaise("IntegrityError")) =>
             /\ db'.water_parameters = db.water_parameters
             /\ disk'.water_parameters = disk.water_parameters]_vars

\* C30: get_recent(limit) with limit >= 0 returns min(limit, number of
\* stored logs) logs, each a different stored log, and no stored log left
\* out of the result has a date later than a log in the result.
C30_GetRecentMostRecent ==
    last.op = "MaintenanceManager.get_recent" =>
        /\ last.ret.kind = "object"
        /\ Len(Result) = IF last.args[1] < Cardinality(db.maintenance_logs)
                         THEN last.args[1]
                         ELSE Cardinality(db.maintenance_logs)
        /\ \A i, j \in DOMAIN Result : i # j => Result[i].id # Result[j].id
        /\ \A i \in DOMAIN Result :
              \E r \in db.maintenance_logs :
                 MaintenanceManager_row_to_log(conn, r) = Result[i]
        /\ \A r \in db.maintenance_logs :
              r.id \notin {Result[i].id : i \in DOMAIN Result} =>
                 \A i \in DOMAIN Result : r.date <= Result[i].date

\* get_recent(2) has returned two of three stored logs, the one left out
\* being the last added and of a different tank than one it returned.
C30_Witness ==
    /\ last.op = "MaintenanceManager.get_recent"
    /\ last.args[1] = 2
    /\ last.ret.kind = "object"
    /\ Cardinality(db.maintenance_logs) = 3
    /\ \E r \in db.maintenance_logs :
          /\ r.id = 3
          /\ r.id \notin {Result[i].id : i \in DOMAIN Result}
          /\ \E i \in DOMAIN Result : Result[i].tank_id # r.tank_id

====
